---- MODULE Spec2Model ----
(***************************************************************************)
(* Model of arsenal/math/numpy_extras.py: compare, show_largest_rel_errors, *)
(* linf and cosine.                                                        *)
(*                                                                         *)
(* Numbers.  A floating point value is a record [t, n, d]:                 *)
(*   t = "fin" : the rational n/d in lowest terms, d > 0                   *)
(*   t = "inf" : +infinity (n = 1) or -infinity (n = -1)                   *)
(*   t = "nan" : not-a-number                                              *)
(*   t = "cos" : the real sign(n) * sqrt(|n| / d), the shape a quotient    *)
(*               dot / (norm * norm) takes (only cosine produces it)       *)
(* Arithmetic on finite values is exact (no rounding); the non-finite      *)
(* cases follow IEEE 754 as numpy applies them.                            *)
(***************************************************************************)
EXTENDS Integers, Sequences, FiniteSets, TLC

VARIABLES expect, got, P_LARGER, regression, alphabet, pc, exc, tests, df

vars == <<expect, got, P_LARGER, regression, alphabet, pc, exc, tests, df>>

(* Longest vector handed to compare *)
MaxLen == 2

(* Longest vector handed to show_largest_rel_errors when called on its own *)
MaxShowLen == 3

---------------------------------------------------------------------------
(* Floating point values *)

RECURSIVE GCD(_, _)
GCD(a, b) == IF b = 0 THEN a ELSE GCD(b, a % b)

AbsInt(i) == IF i < 0 THEN -i ELSE i

SignInt(i) == IF i < 0 THEN -1 ELSE 1

NaN == [t |-> "nan", n |-> 0, d |-> 1]

Inf(s) == [t |-> "inf", n |-> s, d |-> 1]

Fin(a, b) ==
    LET g == GCD(AbsInt(a), b)
    IN  [t |-> "fin", n |-> a \div g, d |-> b \div g]

Num(i) == [t |-> "fin", n |-> i, d |-> 1]

isfinite(x) == x.t = "fin"

IsNaN(x) == x.t = "nan"

(* a1/b1 < a2/b2 for b1, b2 > 0, by comparing integer parts and then the   *)
(* reciprocals of the fractional parts: no product is formed.              *)
RECURSIVE LtFrac(_, _, _, _)
LtFrac(a1, b1, a2, b2) ==
    LET q1 == a1 \div b1
        q2 == a2 \div b2
        r1 == a1 % b1
        r2 == a2 % b2
    IN  IF q1 # q2 THEN q1 < q2
        ELSE IF r2 = 0 THEN FALSE
        ELSE IF r1 = 0 THEN TRUE
        ELSE LtFrac(b2, r2, b1, r1)

(* x < y; every comparison with NaN is False *)
Lt(x, y) ==
    IF IsNaN(x) \/ IsNaN(y) THEN FALSE
    ELSE IF x.t = "inf" THEN x.n = -1 /\ ~(y.t = "inf" /\ y.n = -1)
    ELSE IF y.t = "inf" THEN y.n = 1
    ELSE LtFrac(x.n, x.d, y.n, y.d)

Gt(x, y) == Lt(y, x)

(* x == y *)
Eq(x, y) == ~IsNaN(x) /\ ~IsNaN(y) /\ x = y

(* x != y  (NaN != anything is True) *)
Ne(x, y) == ~Eq(x, y)

(* x <= y *)
Le(x, y) == Lt(x, y) \/ Eq(x, y)

Neg(x) ==
    IF IsNaN(x) THEN NaN ELSE [x EXCEPT !.n = -x.n]

(* numpy.abs on one element *)
Abs(x) ==
    IF IsNaN(x) THEN NaN ELSE [x EXCEPT !.n = AbsInt(x.n)]

Add(x, y) ==
    IF IsNaN(x) \/ IsNaN(y) THEN NaN
    ELSE IF x.t = "inf" THEN (IF y.t = "inf" /\ y.n # x.n THEN NaN ELSE x)
    ELSE IF y.t = "inf" THEN y
    ELSE Fin(x.n * y.d + y.n * x.d, x.d * y.d)

Sub(x, y) == Add(x, Neg(y))

Mul(x, y) ==
    IF IsNaN(x) \/ IsNaN(y) THEN NaN
    ELSE IF x.t = "inf" \/ y.t = "inf"
         THEN (IF x.n = 0 \/ y.n = 0 THEN NaN ELSE Inf(SignInt(x.n) * SignInt(y.n)))
    ELSE Fin(x.n * y.n, x.d * y.d)

(* numpy true division: x/0 is +-inf, 0/0 and inf/inf are nan *)
Div(x, y) ==
    IF IsNaN(x) \/ IsNaN(y) THEN NaN
    ELSE IF x.t = "inf"
         THEN (IF y.t = "inf" THEN NaN ELSE Inf(SignInt(x.n) * SignInt(y.n)))
    ELSE IF y.t = "inf" THEN Num(0)
    ELSE IF y.n = 0 THEN (IF x.n = 0 THEN NaN ELSE Inf(SignInt(x.n)))
    ELSE Fin(SignInt(y.n) * x.n * y.d, x.d * AbsInt(y.n))

(* Python's builtin max(x, y): y replaces x only when y > x *)
PyMax(x, y) == IF Gt(y, x) THEN y ELSE x

Range(s) == {s[i] : i \in 1..Len(s)}

RECURSIVE SumSeq(_)
SumSeq(s) == IF Len(s) = 0 THEN Num(0) ELSE Add(Head(s), SumSeq(Tail(s)))

(* ndarray.max(): NaN propagates; callers never pass an empty array here *)
RECURSIVE NpMax(_)
NpMax(s) ==
    IF Len(s) = 1 THEN s[1]
    ELSE LET m == NpMax(Tail(s))
         IN  IF IsNaN(s[1]) \/ IsNaN(m) THEN NaN
             ELSE IF Gt(m, s[1]) THEN m ELSE s[1]

(* numpy.mean: nan for an empty array *)
NpMean(s) == IF Len(s) = 0 THEN NaN ELSE Div(SumSeq(s), Num(Len(s)))

(* FiniteOnly without the mask *)
FiniteOnly_KeepsAll(s) == s

(* r[isfinite(r)] *)
FiniteOnly(s) == SelectSeq(s, isfinite)

(* isfinite(a).all() *)
AllFinite(a) == \A i \in 1..Len(a) : isfinite(a[i])

(* isfinite(a).sum() *)
CountFinite(a) == Cardinality({i \in 1..Len(a) : isfinite(a[i])})

(* elementwise numpy.abs(a - b) for arrays of one shape *)
AbsDiff(a, b) == [i \in 1..Len(a) |-> Abs(Sub(a[i], b[i]))]

(* a.dot(b) *)
Dot(a, b) == SumSeq([i \in 1..Len(a) |-> Mul(a[i], b[i])])

(* scipy.linalg.norm(a), squared *)
NormSq(a) == Dot(a, a)

---------------------------------------------------------------------------
(* Distance / similarity primitives *)

(* dot / (A*B) for A, B # 0, kept as sign(dot) * sqrt(dot^2 / (A^2 * B^2)) *)
Quotient(dt, A2, B2) ==
    LET sq == Div(Mul(dt, dt), Mul(A2, B2))
    IN  [t |-> "cos", n |-> SignInt(dt.n) * sq.n, d |-> sq.d]

One == [t |-> "cos", n |-> 1, d |-> 1]

(* cosine with `A == 0 or B == 0` in place of `A == 0 and B == 0` *)
cosine_EitherZeroIsOne(a, b) ==
    IF ~AllFinite(a) \/ ~AllFinite(b) THEN NaN
    ELSE LET A2 == NormSq(a)
             B2 == NormSq(b)
         IN  IF A2.n = 0 \/ B2.n = 0 THEN One
             ELSE Quotient(Dot(a, b), A2, B2)

cosine(a, b) ==
    IF ~AllFinite(a) \/ ~AllFinite(b) THEN NaN
    ELSE LET A2 == NormSq(a)
             B2 == NormSq(b)
         IN  IF A2.n = 0 /\ B2.n = 0 THEN One
             ELSE IF A2.n # 0 /\ B2.n # 0 THEN Quotient(Dot(a, b), A2, B2)
             ELSE NaN

(* abs(a - b).max(); ndarray.max() of a zero-size array raises ValueError *)
linfRaises(a, b) == Len(a) = 0

linf(a, b) == NpMax(AbsDiff(a, b))

---------------------------------------------------------------------------
(* Thresholds of the battery *)

(* 0.99999 = (CosineDen - 1) / CosineDen *)
CosineDen == 100000

(* 1e-10 = 10^(-LinfExp) *)
LinfExp == 10

(* 0.01 = 1 / RelErrDen *)
RelErrDen == 100

(* 1e-5 = 1 / RescaledDen *)
RescaledDen == 100000

(* 0.00001 = 1 / ShowDen *)
ShowDen == 100000

(* c > 0.99999.  For c = sqrt(p/q) > 0 and b = CosineDen this is           *)
(* p * b^2 > (b-1)^2 * q, i.e. with D = q - p (>= 0 by Cauchy-Schwarz)     *)
(* b * (2q - b*D) > q, i.e. the integer 2q - b*D exceeds floor(q / b).     *)
GtCosineThreshold(c) ==
    /\ c.t = "cos"
    /\ c.n > 0
    /\ LET D == c.d - c.n
       IN  /\ D <= (2 * c.d) \div CosineDen
           /\ 2 * c.d - CosineDen * D > c.d \div CosineDen

(* a * 10^k < b for integers a >= 0, b > 0 *)
RECURSIVE LtPow10(_, _, _)
LtPow10(a, b, k) ==
    IF k = 0 THEN a < b ELSE LtPow10(a, (b + 9) \div 10, k - 1)

(* d < 1e-10 *)
LtLinfThreshold(d) ==
    \/ d.t = "inf" /\ d.n = -1
    \/ d.t = "fin" /\ (d.n < 0 \/ LtPow10(d.n, d.d, LinfExp))

---------------------------------------------------------------------------
(* compare *)

(* [n] = expect.shape *)
n == Len(expect)

(* Python's True == 1 and False == 0 *)
Bool(b) == IF b THEN 1 ELSE 0

Entry(k, v, passed) == [name |-> k, value |-> v, passed |-> passed]

(* progress(a, b) of arsenal.iterview: a rendering of "a out of b" *)
progress(a, b) == [t |-> "progress", n |-> a, d |-> b]

(* the colour the report loop picks for an entry *)
Verdict(passed) ==
    IF passed = 1 THEN "Pass"
    ELSE IF passed = 0 THEN "Fail"
    ELSE "Informational"

(* assert expect.shape == got.shape *)
CheckShape ==
    /\ pc = "compare"
    /\ IF Len(expect) = Len(got)
       THEN pc' = "finite" /\ exc' = exc
       ELSE pc' = "raised" /\ exc' = "AssertionError"
    /\ tests' = <<>>
    /\ UNCHANGED <<expect, got, P_LARGER, regression, alphabet, df>>

FiniteEntries(e, g) ==
    (IF ~AllFinite(g)
     THEN <<Entry("got finite", progress(CountFinite(g), Len(e)), Bool(FALSE))>>
     ELSE <<>>)
    \o
    (IF ~AllFinite(e)
     THEN <<Entry("expect finite", progress(CountFinite(e), Len(e)), Bool(FALSE))>>
     ELSE <<>>)

(* CheckFinite giving up on non-finite data instead of recording it *)
CheckFinite_ReturnsOnNaN ==
    /\ pc = "finite"
    /\ tests' = tests \o FiniteEntries(expect, got)
    /\ pc' = IF AllFinite(expect) /\ AllFinite(got) THEN "cosine" ELSE "returned"
    /\ UNCHANGED <<expect, got, P_LARGER, regression, alphabet, exc, df>>

CheckFinite ==
    /\ pc = "finite"
    /\ tests' = tests \o FiniteEntries(expect, got)
    /\ pc' = "cosine"
    /\ UNCHANGED <<expect, got, P_LARGER, regression, alphabet, exc, df>>

CosineEntry(e, g) ==
    LET c == cosine(e, g)
    IN  Entry("cosine-sim", c, Bool(GtCosineThreshold(c)))

CheckCosine ==
    /\ pc = "cosine"
    /\ tests' = Append(tests, CosineEntry(expect, got))
    /\ pc' = "linf"
    /\ UNCHANGED <<expect, got, P_LARGER, regression, alphabet, exc, df>>

LinfEntry(e, g) ==
    LET d == linf(e, g)
    IN  Entry("Linf", d, Bool(LtLinfThreshold(d)))

CheckLinf ==
    /\ pc = "linf"
    /\ IF linfRaises(expect, got)
       THEN pc' = "raised" /\ exc' = "ValueError" /\ tests' = tests
       ELSE /\ tests' = Append(tests, LinfEntry(expect, got))
            /\ pc' = "sign"
            /\ exc' = exc
    /\ UNCHANGED <<expect, got, P_LARGER, regression, alphabet, df>>

(* s = ~((x > 0) ^ (y > 0)), as 0/1 *)
SameSign(x, y) == Gt(x, Num(0)) <=> Gt(y, Num(0))

SameSignCount(e, g) == Cardinality({i \in 1..Len(e) : SameSign(e[i], g[i])})

(* p = s.sum() * 100.0 / len(s) *)
SameSignPercent(e, g) == Div(Num(SameSignCount(e, g) * 100), Num(Len(e)))

SameSignEntry(e, g) ==
    Entry("same-sign",
          [t |-> "percent", n |-> SameSignCount(e, g), d |-> Len(e)],
          Bool(Eq(SameSignPercent(e, g), Num(100))))

CheckSameSign ==
    /\ pc = "sign"
    /\ tests' = Append(tests, SameSignEntry(expect, got))
    /\ pc' = "relerr"
    /\ UNCHANGED <<expect, got, P_LARGER, regression, alphabet, exc, df>>

(* RelScale without the guard against zeros *)
RelScale_NoZeroGuard(x, y) == PyMax(Abs(x), Abs(y))

(* RelScale falling back to 1.0 only when both values are zero *)
RelScale_OnlyBothZero(x, y) ==
    IF Eq(PyMax(Abs(x), Abs(y)), Num(0)) THEN Num(1) ELSE PyMax(Abs(x), Abs(y))

(* rs: max(x, y) if x != 0 and y != 0 else 1.0, on the absolute values *)
RelScale(x, y) ==
    IF Ne(Abs(x), Num(0)) /\ Ne(Abs(y), Num(0))
    THEN PyMax(Abs(x), Abs(y))
    ELSE Num(1)

(* r = np.abs(expect - got) / rs *)
RelativeErrors(e, g) ==
    [i \in 1..Len(e) |-> Div(Abs(Sub(e[i], g[i])), RelScale(e[i], g[i]))]

(* np.mean(r[isfinite(r)]) *)
MeanRelativeError(e, g) == NpMean(FiniteOnly(RelativeErrors(e, g)))

RelErrEntry(e, g) ==
    LET r == MeanRelativeError(e, g)
    IN  Entry("mean relative error", r, Bool(Le(r, Fin(1, RelErrDen))))

CheckRelativeError ==
    /\ pc = "relerr"
    /\ tests' = Append(tests, RelErrEntry(expect, got))
    /\ pc' = "rescaled"
    /\ UNCHANGED <<expect, got, P_LARGER, regression, alphabet, exc, df>>

(* es = np.abs(expect).max(); if es == 0: es = 1 *)
RescaleBy(a) ==
    LET m == NpMax([i \in 1..Len(a) |-> Abs(a[i])])
    IN  IF Eq(m, Num(0)) THEN Num(1) ELSE m

(* R = np.abs(expect / es - got / gs) *)
RescaledErrors(e, g) ==
    LET es == RescaleBy(e)
        gs == RescaleBy(g)
    IN  [i \in 1..Len(e) |-> Abs(Sub(Div(e[i], es), Div(g[i], gs)))]

(* np.mean(R) *)
MeanRescaledError(e, g) == NpMean(RescaledErrors(e, g))

RescaledEntry(e, g) ==
    LET r == MeanRescaledError(e, g)
    IN  Entry("mean rescaled error", r, Bool(Le(r, Fin(1, RescaledDen))))

CheckRescaled ==
    /\ pc = "rescaled"
    /\ tests' = IF n >= 2 THEN Append(tests, RescaledEntry(expect, got)) ELSE tests
    /\ pc' = "regression"
    /\ UNCHANGED <<expect, got, P_LARGER, regression, alphabet, exc, df>>

(* scipy.linalg.lstsq(A, expect): the fit itself is the library's, kept opaque *)
lstsq == [t |-> "lstsq", n |-> 0, d |-> 1]

DidNotRun == [t |-> "did not run due to NaNs in data", n |-> 0, d |-> 1]

(* RegressionEntry with the same third field on both branches *)
RegressionEntry_AlwaysInformational(e, g) ==
    IF AllFinite(g) /\ AllFinite(e)
    THEN Entry("regression", lstsq, 2)
    ELSE Entry("regression", DidNotRun, 2)

RegressionEntry(e, g) ==
    IF AllFinite(g) /\ AllFinite(e)
    THEN Entry("regression", lstsq, 2)
    ELSE Entry("regression", DidNotRun, 0)

CheckRegression ==
    /\ pc = "regression"
    /\ tests' = IF n >= 2 /\ regression
                THEN Append(tests, RegressionEntry(expect, got))
                ELSE tests
    /\ pc' = "larger"
    /\ UNCHANGED <<expect, got, P_LARGER, regression, alphabet, exc, df>>

(* L = ((a - b) > 0).sum() *)
CountLarger(a, b) ==
    Cardinality({i \in 1..Len(a) : Gt(Sub(a[i], b[i]), Num(0))})

(* AtLeastFraction with > in place of >= *)
AtLeastFraction_Strict(L, P, len) == Lt(Mul(P, Num(len)), Num(L))

(* L >= P_LARGER * n *)
AtLeastFraction(L, P, len) == Le(Mul(P, Num(len)), Num(L))

LargerEntries(e, g, P) ==
    (IF AtLeastFraction(CountLarger(e, g), P, Len(e))
     THEN <<Entry("expect is larger", progress(CountLarger(e, g), Len(e)), 0)>>
     ELSE <<>>)
    \o
    (IF AtLeastFraction(CountLarger(g, e), P, Len(e))
     THEN <<Entry("got is larger", progress(CountLarger(g, e), Len(e)), 0)>>
     ELSE <<>>)

CheckLarger ==
    /\ pc = "larger"
    /\ tests' = IF n >= 2 THEN tests \o LargerEntries(expect, got, P_LARGER) ELSE tests
    /\ pc' = "report"
    /\ UNCHANGED <<expect, got, P_LARGER, regression, alphabet, exc, df>>

(* the report is printed; show_largest_rel_errors runs when an alphabet is given *)
Report ==
    /\ pc = "report"
    /\ pc' = IF alphabet.none THEN "returned" ELSE "show"
    /\ UNCHANGED <<expect, got, P_LARGER, regression, alphabet, exc, tests, df>>

---------------------------------------------------------------------------
(* show_largest_rel_errors *)

(* ShowScale without `if scale == 0: scale = 1` *)
ShowScale_NoZeroGuard(x, y) == PyMax(Abs(x), Abs(y))

(* scale = max(abs(x), abs(y)); if scale == 0: scale = 1 *)
ShowScale(x, y) ==
    LET m == PyMax(Abs(x), Abs(y))
    IN  IF Eq(m, Num(0)) THEN Num(1) ELSE m

(* e = np.abs(x - y) / scale *)
ShowRelErr(x, y) == Div(Abs(Sub(x, y)), ShowScale(x, y))

(* ShowSkips with < in place of <= *)
ShowSkips_Strict(e) == Lt(e, Fin(1, ShowDen))

(* if e <= 0.00001: continue *)
ShowSkips(e) == Le(e, Fin(1, ShowDen))

Row(e, label, x, y) == [e |-> e, label |-> label, x |-> x, y |-> y]

(* the rows appended to df, in index order *)
RECURSIVE ShowRows(_, _, _, _)
ShowRows(e, g, labels, i) ==
    IF i > Len(e) THEN <<>>
    ELSE LET err == ShowRelErr(e[i], g[i])
         IN  (IF ShowSkips(err) THEN <<>> ELSE <<Row(err, labels[i], e[i], g[i])>>)
             \o ShowRows(e, g, labels, i + 1)

(* list comparison r1 < r2: the first differing item decides *)
RowLt(r1, r2) ==
    IF Ne(r1.e, r2.e) THEN Lt(r1.e, r2.e)
    ELSE IF r1.label # r2.label THEN r1.label < r2.label
    ELSE IF Ne(r1.x, r2.x) THEN Lt(r1.x, r2.x)
    ELSE IF Ne(r1.y, r2.y) THEN Lt(r1.y, r2.y)
    ELSE FALSE

Reverse(s) == [i \in 1..Len(s) |-> s[Len(s) + 1 - i]]

(* count_run: the length of the run s starts with, and whether it is       *)
(* strictly descending (Len(s) >= 2)                                       *)
RECURSIVE RunEnd(_, _, _)
RunEnd(s, k, descending) ==
    IF k < Len(s) /\ (RowLt(s[k + 1], s[k]) = descending)
    THEN RunEnd(s, k + 1, descending)
    ELSE k

(* binarysort's search for the pivot's place in s[l+1 .. r] (l < r) *)
RECURSIVE Place(_, _, _, _)
Place(s, pivot, l, r) ==
    LET p == l + (r - l) \div 2
        l2 == IF RowLt(pivot, s[p + 1]) THEN l ELSE p + 1
        r2 == IF RowLt(pivot, s[p + 1]) THEN p ELSE r
    IN  IF l2 < r2 THEN Place(s, pivot, l2, r2) ELSE l2

(* binarysort: s[1 .. start] is in order; insert the rest one by one *)
RECURSIVE BinarySort(_, _)
BinarySort(s, start) ==
    IF start >= Len(s) THEN s
    ELSE LET pivot == s[start + 1]
             l == Place(s, pivot, 0, start)
         IN  BinarySort(SubSeq(s, 1, l) \o <<pivot>> \o SubSeq(s, l + 1, start)
                          \o SubSeq(s, start + 2, Len(s)),
                        start + 1)

(* df.sort(reverse=1) as CPython sorts a list shorter than 64: reverse,    *)
(* find the leading run (reversed in place when descending), insert the    *)
(* remaining rows by binary insertion, reverse again.  It is written out   *)
(* because rows with a NaN error do not compare as an order (NaN < v and   *)
(* v < NaN are both False), and the result is then what these steps leave. *)
Sort(s) ==
    IF Len(s) < 2 THEN s
    ELSE LET r == Reverse(s)
             descending == RowLt(r[2], r[1])
             k == RunEnd(r, 2, descending)
             run == IF descending
                    THEN Reverse(SubSeq(r, 1, k)) \o SubSeq(r, k + 1, Len(r))
                    ELSE r
         IN  Reverse(BinarySort(run, k))

show_largest_rel_errors ==
    /\ pc = "show"
    /\ df' = Sort(ShowRows(expect, got, alphabet.labels, 1))
    /\ pc' = "returned"
    /\ UNCHANGED <<expect, got, P_LARGER, regression, alphabet, exc, tests>>

---------------------------------------------------------------------------
(* Inputs *)

CompareVals == {Num(0), Num(99), Num(100), Num(-100), NaN, Inf(1)}

ShowVals == {Num(0), Num(99998), Num(99999), Num(100000), NaN}

Vectors(V, max) == UNION {[1..k -> V] : k \in 0..max}

None == [none |-> TRUE, labels |-> <<>>]

Labels(f) == [none |-> FALSE, labels |-> f]

(* per-element labels: the indices *)
Alphabets(len) == {Labels([i \in 1..len |-> i])}

(* the defaults, and every option set *)
Options(len) ==
    {[P_LARGER |-> Fin(9, 10), regression |-> FALSE, alphabet |-> None],
     [P_LARGER |-> Fin(1, 2), regression |-> TRUE,
      alphabet |-> Labels([i \in 1..len |-> i])]}

Init ==
    /\ expect \in Vectors(CompareVals, MaxLen)
    /\ got \in Vectors(CompareVals, MaxLen)
    /\ \E o \in Options(Len(expect)) :
          /\ P_LARGER = o.P_LARGER
          /\ regression = o.regression
          /\ alphabet = o.alphabet
    /\ pc = "compare"
    /\ exc = "none"
    /\ tests = <<>>
    /\ df = <<>>

Next ==
    \/ CheckShape
    \/ CheckFinite
    \/ CheckCosine
    \/ CheckLinf
    \/ CheckSameSign
    \/ CheckRelativeError
    \/ CheckRescaled
    \/ CheckRegression
    \/ CheckLarger
    \/ Report
    \/ show_largest_rel_errors

Spec == Init /\ [][Next]_vars

(* show_largest_rel_errors called on its own *)
InitShow ==
    /\ expect \in Vectors(ShowVals, MaxShowLen)
    /\ got \in Vectors(ShowVals, MaxShowLen)
    /\ Len(got) = Len(expect)
    /\ alphabet \in Alphabets(Len(expect))
    /\ P_LARGER = Fin(9, 10)
    /\ regression = FALSE
    /\ pc = "show"
    /\ exc = "none"
    /\ tests = <<>>
    /\ df = <<>>

NextShow == show_largest_rel_errors

SpecShow == InitShow /\ [][NextShow]_vars

---------------------------------------------------------------------------
(* Vocabulary of the properties *)

Returned == pc = "returned"

TestNames == [i \in 1..Len(tests) |-> tests[i].name]

Has(name) == \E i \in 1..Len(tests) : tests[i].name = name

Count(name) == Cardinality({i \in 1..Len(tests) : tests[i].name = name})

TheEntry(name) == tests[CHOOSE i \in 1..Len(tests) : tests[i].name = name]

LastEntry == tests[Len(tests)]

Ungated == <<"cosine-sim", "Linf", "same-sign", "mean relative error">>

Battery == Ungated \o <<"mean rescaled error">>

InBattery(name) == name \in Range(Battery)

IsFiniteness(name) == name \in {"got finite", "expect finite"}

BothFinite(i) == isfinite(expect[i]) /\ isfinite(got[i])

SomeNonFinite == ~AllFinite(expect) \/ ~AllFinite(got)

IsZero(x) == x = Num(0)

ExactlyOneZero(x, y) == IsZero(x) # IsZero(y)

(* the larger of two values, as a number (undefined, NaN, if either is) *)
Larger(x, y) ==
    IF IsNaN(x) \/ IsNaN(y) THEN NaN ELSE IF Lt(x, y) THEN y ELSE x

(* |x - y| / max(|x|, |y|), or / 1 when that maximum is 0 *)
RelErrByMax(x, y) ==
    LET m == Larger(Abs(x), Abs(y))
    IN  Div(Abs(Sub(x, y)), IF IsZero(m) THEN Num(1) ELSE m)

(* |x - y| / max(|x|, |y|) when both are nonzero, |x - y| / 1 otherwise *)
RelErrZeroAsOne(x, y) ==
    IF IsZero(x) \/ IsZero(y)
    THEN Abs(Sub(x, y))
    ELSE Div(Abs(Sub(x, y)), Larger(Abs(x), Abs(y)))

(* the subsequence of s at the indices in I, in index order *)
RECURSIVE Pick(_, _, _)
Pick(s, I, i) ==
    IF i > Len(s) THEN <<>>
    ELSE (IF i \in I THEN <<s[i]>> ELSE <<>>) \o Pick(s, I, i + 1)

---------------------------------------------------------------------------
(* C1: compare(a, a) on a finite vector a of length >= 1 returns a report  *)
(* whose checks all pass: cosine-sim is 1, Linf is 0, same-sign is 100%,   *)
(* mean relative error is 0, mean rescaled error (n >= 2) is 0, with no    *)
(* finiteness entry and no 'is larger' entry.  (With regression=True the   *)
(* report also ends with the regression entry, which is not a check.)      *)
C1_SelfComparisonPasses ==
    (Returned /\ expect = got /\ AllFinite(expect) /\ n >= 1) =>
        /\ TestNames = (IF n >= 2 THEN Battery ELSE Ungated)
                       \o (IF n >= 2 /\ regression THEN <<"regression">> ELSE <<>>)
        /\ \A i \in 1..Len(tests) :
              tests[i].name # "regression" => Verdict(tests[i].passed) = "Pass"
        /\ TheEntry("cosine-sim").value = One
        /\ TheEntry("Linf").value = Num(0)
        /\ TheEntry("same-sign").value = [t |-> "percent", n |-> n, d |-> n]
        /\ TheEntry("mean relative error").value = Num(0)
        /\ n >= 2 => TheEntry("mean rescaled error").value = Num(0)

C1_Witness ==
    /\ Returned /\ expect = got /\ AllFinite(expect) /\ n >= 2
    /\ IsZero(expect[1]) /\ ~IsZero(expect[2])
    /\ ~regression

(* C2: compare never short-circuits.  An equal-length pair with n >= 2     *)
(* never makes the call raise, and the returned report holds cosine-sim,   *)
(* Linf, same-sign, mean relative error and mean rescaled error, each once *)
(* and in that order, behind one failed finiteness entry per vector that   *)
(* has a non-finite entry.                                                 *)
C2_NoShortCircuit ==
    (Len(expect) = Len(got) /\ n >= 2) =>
        /\ pc # "raised"
        /\ Returned =>
              LET k == Bool(~AllFinite(got)) + Bool(~AllFinite(expect))
              IN  /\ SelectSeq(TestNames, InBattery) = Battery
                  /\ Len(tests) >= k + Len(Battery)
                  /\ \A i \in 1..k : /\ IsFiniteness(tests[i].name)
                                     /\ Verdict(tests[i].passed) = "Fail"
                  /\ \A i \in (k + 1)..Len(tests) : ~IsFiniteness(tests[i].name)
                  /\ \A i \in 1..Len(Battery) : tests[k + i].name = Battery[i]

C2_Witness ==
    /\ Returned /\ n >= 2
    /\ ~AllFinite(expect) /\ ~AllFinite(got)
    /\ Verdict(TheEntry("cosine-sim").passed) = "Fail"
    /\ Verdict(TheEntry("Linf").passed) = "Fail"
    /\ Has("mean rescaled error")

(* C3: for an equal-length pair with n < 2, compare does not fail and      *)
(* returns the ungated checks only.                                        *)
C3_DegenerateInputReturns ==
    (Len(expect) = Len(got) /\ n < 2) =>
        /\ pc # "raised"
        /\ Returned => SelectSeq(TestNames, InBattery) = Ungated
        /\ Returned => ~Has("regression")
                       /\ ~Has("expect is larger") /\ ~Has("got is larger")

(* C4 as claimed: with regression=True and n >= 2 the report has exactly   *)
(* one regression entry and its verdict is Informational whether or not    *)
(* the fit ran.                                                            *)
C4_RegressionInformational ==
    (Returned /\ regression /\ n >= 2) =>
        /\ Count("regression") = 1
        /\ Verdict(TheEntry("regression").passed) = "Informational"
        /\ TheEntry("regression").value = (IF SomeNonFinite THEN DidNotRun ELSE lstsq)

(* C4 amended: with regression=True and n >= 2 the report has exactly one  *)
(* regression entry; it carries the fit with verdict Informational when    *)
(* both vectors are finite, and the reason the fit did not run with        *)
(* verdict Fail when either has a non-finite entry.                        *)
C4_RegressionVerdict ==
    (Returned /\ regression /\ n >= 2) =>
        /\ Count("regression") = 1
        /\ TheEntry("regression").value = (IF SomeNonFinite THEN DidNotRun ELSE lstsq)
        /\ Verdict(TheEntry("regression").passed)
              = (IF SomeNonFinite THEN "Fail" ELSE "Informational")

C4_Witness ==
    /\ Returned /\ regression /\ n >= 2
    /\ AllFinite(expect) /\ ~AllFinite(got)
    /\ Has("regression")

(* C5 as claimed: with a non-finite entry and n >= 2, both means are taken *)
(* over the remaining indices, so that neither is non-finite while an      *)
(* index remains.                                                          *)
C5_MeansSkipNonFinite ==
    (Returned /\ n >= 2 /\ SomeNonFinite) =>
        LET rest == {i \in 1..n : BothFinite(i)}
        IN  /\ TheEntry("mean relative error").value
                  = NpMean(Pick(RelativeErrors(expect, got), rest, 1))
            /\ rest # {} => isfinite(TheEntry("mean relative error").value)
            /\ rest # {} => isfinite(TheEntry("mean rescaled error").value)

(* C5 amended: with a non-finite entry and n >= 2, the mean relative error *)
(* is taken over the indices where both values are finite (and is finite   *)
(* while such an index remains); the mean rescaled error is taken over all *)
(* indices and is NaN.                                                     *)
C5_OnlyRelativeErrorSkips ==
    (Returned /\ n >= 2 /\ SomeNonFinite) =>
        LET rest == {i \in 1..n : BothFinite(i)}
        IN  /\ TheEntry("mean relative error").value
                  = NpMean(Pick(RelativeErrors(expect, got), rest, 1))
            /\ rest # {} => isfinite(TheEntry("mean relative error").value)
            /\ TheEntry("mean rescaled error").value = NaN

C5_Witness ==
    /\ Returned /\ n >= 2
    /\ Cardinality({i \in 1..n : ~BothFinite(i)}) = 1
    /\ isfinite(TheEntry("mean relative error").value)
    /\ ~IsZero(TheEntry("mean relative error").value)
    /\ IsNaN(TheEntry("mean rescaled error").value)

(* the rows show_largest_rel_errors is to list when it lists the indices in I *)
Occurrences(s, r) == Cardinality({i \in 1..Len(s) : s[i] = r})

(* s and t hold the same rows, each as often *)
SameRows(s, t) ==
    /\ Len(s) = Len(t)
    /\ \A i \in 1..Len(s) : Occurrences(s, s[i]) = Occurrences(t, s[i])

RowsAt(I) ==
    Pick([i \in 1..Len(expect) |->
             Row(RelErrByMax(expect[i], got[i]), alphabet.labels[i], expect[i], got[i])],
         I, 1)

NonIncreasing == \A i \in 1..(Len(df) - 1) : ~Lt(df[i].e, df[i + 1].e)

(* C6 as claimed: the rows show_largest_rel_errors lists are exactly those *)
(* of the indices whose relative error |expect_i - got_i| / scale_i is     *)
(* strictly greater than 0.00001, in non-increasing order of that error.   *)
C6_ListsErrorsAboveThreshold ==
    Returned =>
        /\ SameRows(df,
              RowsAt({i \in 1..Len(expect) :
                         Gt(RelErrByMax(expect[i], got[i]), Fin(1, ShowDen))}))
        /\ NonIncreasing

(* C6 amended: the rows listed are exactly those of the indices whose      *)
(* relative error is not <= 0.00001: strictly greater, or NaN (as it is    *)
(* wherever expect_i or got_i is not finite); when no listed error is NaN  *)
(* the rows are in non-increasing order of relative error.                 *)
C6_ListsErrorsNotBelowThreshold ==
    Returned =>
        /\ SameRows(df,
              RowsAt({i \in 1..Len(expect) :
                         \/ Gt(RelErrByMax(expect[i], got[i]), Fin(1, ShowDen))
                         \/ ~BothFinite(i)}))
        /\ \A i \in 1..Len(df) : IsNaN(df[i].e) <=> ~(isfinite(df[i].x) /\ isfinite(df[i].y))
        /\ (\A i \in 1..Len(df) : ~IsNaN(df[i].e)) => NonIncreasing

C6_Witness ==
    /\ Returned
    /\ Len(expect) > Len(df)
    /\ \E i \in 1..Len(expect) : RelErrByMax(expect[i], got[i]) = Fin(1, ShowDen)
    /\ Len(df) >= 2
    /\ \A i \in 1..Len(df) : ~IsNaN(df[i].e)
    /\ Lt(df[2].e, df[1].e)
    /\ Lt(df[2].e, Num(1))
    /\ df[1].label > df[2].label

(* C7: cosine(a, b) is NaN if either vector has a non-finite entry;        *)
(* otherwise 1.0 if both norms are zero, NaN if exactly one is, and        *)
(* dot(a,b) / (norm(a) * norm(b)) if neither is: a value c with the sign   *)
(* of dot(a,b) and c^2 = dot(a,b)^2 / (norm(a)^2 * norm(b)^2).             *)
C7_Cosine ==
    (pc = "linf") =>
        LET c == LastEntry.value
            zeroE == \A i \in 1..n : IsZero(expect[i])
            zeroG == \A i \in 1..n : IsZero(got[i])
            dt == Dot(expect, got)
        IN  /\ LastEntry.name = "cosine-sim"
            /\ SomeNonFinite => c = NaN
            /\ (~SomeNonFinite /\ zeroE /\ zeroG) => c = One
            /\ (~SomeNonFinite /\ zeroE # zeroG) => c = NaN
            /\ (~SomeNonFinite /\ ~zeroE /\ ~zeroG) =>
                  /\ c.t = "cos"
                  /\ (c.n > 0) = (dt.n > 0)
                  /\ (c.n < 0) = (dt.n < 0)
                  /\ Fin(AbsInt(c.n), c.d)
                        = Div(Mul(dt, dt), Mul(NormSq(expect), NormSq(got)))

C7_Witness ==
    /\ pc = "linf" /\ n >= 2
    /\ ~SomeNonFinite
    /\ LastEntry.value.t = "cos"
    /\ LastEntry.value.n < 0
    /\ LastEntry.value.n # -LastEntry.value.d
    /\ \E i \in 1..n : IsZero(expect[i])

(* C8: compare's per-index relative error is |expect_i - got_i| divided by *)
(* max(|expect_i|, |got_i|) when both values are nonzero and by 1.0 when   *)
(* either is zero; 'mean relative error' is the average of these over the  *)
(* indices where the result is finite, and passes exactly when that mean   *)
(* is <= 0.01.                                                             *)
C8_MeanRelativeError ==
    (pc = "rescaled") =>
        LET r == [i \in 1..n |-> RelErrZeroAsOne(expect[i], got[i])]
            m == NpMean(Pick(r, {i \in 1..n : isfinite(r[i])}, 1))
        IN  /\ LastEntry.name = "mean relative error"
            /\ LastEntry.value = m
            /\ (Verdict(LastEntry.passed) = "Pass") = Le(m, Fin(1, 100))
            /\ Verdict(LastEntry.passed) \in {"Pass", "Fail"}

C8_Witness ==
    /\ pc = "rescaled" /\ n >= 2
    /\ LastEntry.value = Fin(1, 100)
    /\ Verdict(LastEntry.passed) = "Pass"
    /\ SomeNonFinite
    /\ \E i \in 1..n : ExactlyOneZero(expect[i], got[i])

(* C9: for n >= 2 the report has an 'expect is larger' entry exactly when  *)
(* the number of indices with expect_i > got_i is at least P_LARGER * n,   *)
(* and a 'got is larger' entry exactly when the number with                *)
(* got_i > expect_i is; each such entry has verdict Fail; for n < 2        *)
(* neither appears.                                                        *)
C9_SystematicBias ==
    Returned =>
        LET ge == Cardinality({i \in 1..n : Gt(expect[i], got[i])})
            gg == Cardinality({i \in 1..n : Gt(got[i], expect[i])})
        IN  /\ Has("expect is larger") = (n >= 2 /\ ge * P_LARGER.d >= P_LARGER.n * n)
            /\ Has("got is larger") = (n >= 2 /\ gg * P_LARGER.d >= P_LARGER.n * n)
            /\ Count("expect is larger") <= 1
            /\ Count("got is larger") <= 1
            /\ \A i \in 1..Len(tests) :
                  tests[i].name \in {"expect is larger", "got is larger"}
                     => Verdict(tests[i].passed) = "Fail"

C9_Witness ==
    /\ Returned /\ n >= 2
    /\ Has("expect is larger") /\ Has("got is larger")
    /\ SomeNonFinite

(* C10 as claimed: the relative error show_largest_rel_errors reports for  *)
(* an index is the one compare averages for that index, namely the         *)
(* absolute difference divided by the larger absolute value, or by 1.0 if  *)
(* both values are zero.                                                   *)
C10_OneRelativeError ==
    (Returned /\ ~alphabet.none) =>
        \A k \in 1..Len(df) :
            /\ df[k].e = RelativeErrors(expect, got)[df[k].label]
            /\ df[k].e = RelErrByMax(df[k].x, df[k].y)

(* C10 amended: the two agree, on the absolute difference divided by the   *)
(* larger absolute value, at every reported index except where exactly one *)
(* of the two values is zero: there compare divides the absolute           *)
(* difference by 1.0 and show_largest_rel_errors by the absolute value of  *)
(* the nonzero one.                                                        *)
C10_RelativeErrorsAgreeOffZero ==
    (Returned /\ ~alphabet.none) =>
        \A k \in 1..Len(df) :
            LET i == df[k].label
                r == RelativeErrors(expect, got)[i]
            IN  /\ df[k].x = expect[i] /\ df[k].y = got[i]
                /\ df[k].e = RelErrByMax(expect[i], got[i])
                /\ ~ExactlyOneZero(expect[i], got[i]) => df[k].e = r
                /\ ExactlyOneZero(expect[i], got[i]) => r = Abs(Sub(expect[i], got[i]))

C10_Witness ==
    /\ Returned /\ ~alphabet.none
    /\ \E k \in 1..Len(df) :
          /\ ExactlyOneZero(df[k].x, df[k].y)
          /\ isfinite(df[k].e)
          /\ df[k].e # RelativeErrors(expect, got)[df[k].label]
    /\ \E k \in 1..Len(df) :
          /\ ~IsZero(df[k].x) /\ ~IsZero(df[k].y)
          /\ isfinite(df[k].e)
          /\ df[k].e = RelativeErrors(expect, got)[df[k].label]

====
